---------------------------- MODULE Spec2Model ----------------------------
(***************************************************************************)
(* A model of the rust-tetris core: the playing field (tetrisfield.rs),    *)
(* the tetromino catalogue and the active block (tetromino.rs), the menu   *)
(* construct (settings.rs) and the game state machine Tetris::frame        *)
(* (game/tetris/mod.rs).                                                   *)
(*                                                                         *)
(* Coordinates are those of the code: rows and columns are counted from 0, *)
(* a block's (x, y) is the grid position of the top-left cell of its       *)
(* square shape matrix, and y may be negative.  TLA+ sequences are counted *)
(* from 1, so the cell (row y, column x) of a matrix m is m[y + 1][x + 1]. *)
(***************************************************************************)
EXTENDS Integers, Sequences, FiniteSets

(***************************************************************************)
(* Settings (settings.rs:20-25) and the bounds of the model.               *)
(***************************************************************************)
\* Settings.rows: TetrisField::new asserts rows >= 4.
Rows == 4
\* Settings.cols: TetrisField::new asserts cols >= 4.
Cols == 4
\* Settings.delay, in clock units.
Delay == 1
\* The number of frame calls a run of the game is followed for.
MaxTicks == 6
\* The number of frame calls a lock-step run of two machines is followed for.
MaxPairTicks == 2
\* The largest number of occupied cells of a sparse grid handed to the field
\* operations when they are checked as pure functions.
MaxCells == 1
\* The largest offset, in rows and in columns, try_move is called with.
MaxShift == 1
\* The number of items of the longest menu, and the number of calls made on
\* a menu in a row.
MaxItems == 4
MaxMenuSteps == 3
\* The number of calls of random_block made in a row.
MaxDraws == 23
\* The largest Settings.rows and Settings.cols Block::spawn and
\* TetrisField::new are called with when they are checked as pure functions.
MaxHeight == 6
MaxWidth == 9
\* const BAG_SIZE: u8 = 3 (mod.rs:246)
BAG_SIZE == 3

\* The timestamps a driver supplies: elapsed time is either short of the
\* delay or reaches it, and a timestamp may lie before the stored one.
Times == 0..Delay

\* Option<T>
None == <<>>
Some(v) == <<v>>

(***************************************************************************)
(* tetromino.rs: the catalogue.                                            *)
(***************************************************************************)
Kinds == {"I", "T", "J", "L", "S", "Z", "O"}

\* Figure::SHAPE of each kind, through Tetromino::shape
Shape(k) ==
  CASE k = "I" -> << <<0, 0, 0, 0>>, <<1, 1, 1, 1>>, <<0, 0, 0, 0>>, <<0, 0, 0, 0>> >>
    [] k = "T" -> << <<0, 2, 0>>, <<2, 2, 2>>, <<0, 0, 0>> >>
    [] k = "J" -> << <<3, 0, 0>>, <<3, 3, 3>>, <<0, 0, 0>> >>
    [] k = "L" -> << <<0, 0, 4>>, <<4, 4, 4>>, <<0, 0, 0>> >>
    [] k = "S" -> << <<0, 5, 5>>, <<5, 5, 0>>, <<0, 0, 0>> >>
    [] k = "Z" -> << <<6, 6, 0>>, <<0, 6, 6>>, <<0, 0, 0>> >>
    [] k = "O" -> << <<7, 7>>, <<7, 7>> >>

\* Tetromino::dir
Dir(k) ==
  CASE k \in {"T", "L", "J"} -> "Full"
    [] k \in {"I", "S", "Z"} -> "Half"
    [] k = "O" -> "None"

Rotations == {"Default", "CW", "Reverse", "CCW"}

\* Rotation::next, the Half cycle leaving Default for CW.
RotationNextWide(rot, dir) ==
  CASE dir = "None" /\ rot = "Default" -> "Default"
    [] dir = "Half" /\ rot = "Default" -> "CW"
    [] dir = "Half" /\ rot = "CCW" -> "Default"
    [] dir = "Full" /\ rot = "Default" -> "CW"
    [] dir = "Full" /\ rot = "CW" -> "Reverse"
    [] dir = "Full" /\ rot = "Reverse" -> "CCW"
    [] dir = "Full" /\ rot = "CCW" -> "Default"
    [] OTHER -> "unreachable"

\* Rotation::next, the Full cycle going from Reverse back to Default.
RotationNextShort(rot, dir) ==
  CASE dir = "None" /\ rot = "Default" -> "Default"
    [] dir = "Half" /\ rot = "Default" -> "CCW"
    [] dir = "Half" /\ rot = "CCW" -> "Default"
    [] dir = "Full" /\ rot = "Default" -> "CW"
    [] dir = "Full" /\ rot = "CW" -> "Reverse"
    [] dir = "Full" /\ rot = "Reverse" -> "Default"
    [] dir = "Full" /\ rot = "CCW" -> "Default"
    [] OTHER -> "unreachable"

\* Rotation::next; the arm `_ => unreachable!()` is the value "unreachable".
RotationNext(rot, dir) ==
  CASE dir = "None" /\ rot = "Default" -> "Default"
    [] dir = "Half" /\ rot = "Default" -> "CCW"
    [] dir = "Half" /\ rot = "CCW" -> "Default"
    [] dir = "Full" /\ rot = "Default" -> "CW"
    [] dir = "Full" /\ rot = "CW" -> "Reverse"
    [] dir = "Full" /\ rot = "Reverse" -> "CCW"
    [] dir = "Full" /\ rot = "CCW" -> "Default"
    [] OTHER -> "unreachable"

\* Tetromino::wallkick: the (x, y) offsets tried in order; an unreachable!()
\* arm is the empty list.
Wallkick(k, rot) ==
  CASE k \in {"T", "L", "J"} ->
         (CASE rot = "Default" -> << <<0, 0>>, <<-1, 0>>, <<-1, 1>>, <<0, -2>>, <<-1, -2>> >>
            [] rot = "CW" -> << <<0, 0>>, <<1, 0>>, <<1, -1>>, <<0, 2>>, <<1, 2>> >>
            [] rot = "Reverse" -> << <<0, 0>>, <<1, 0>>, <<1, 1>>, <<0, -2>>, <<1, -2>> >>
            [] rot = "CCW" -> << <<0, 0>>, <<-1, 0>>, <<-1, -1>>, <<0, 2>>, <<-1, 2>> >>)
    [] k \in {"S", "Z"} ->
         (CASE rot = "Default" -> << <<0, 0>>, <<1, 0>>, <<1, 1>>, <<0, -2>>, <<1, -2>> >>
            [] rot = "CCW" -> << <<0, 0>>, <<-1, 0>>, <<-1, -1>>, <<0, 2>>, <<-1, 2>> >>
            [] OTHER -> << >>)
    [] k = "I" ->
         (CASE rot = "Default" -> << <<0, 0>>, <<-1, 0>>, <<2, 0>>, <<-1, 2>>, <<2, -1>> >>
            [] rot = "CCW" -> << <<0, 0>>, <<1, 0>>, <<-2, 0>>, <<1, -2>>, <<-2, 1>> >>
            [] OTHER -> << >>)
    [] k = "O" -> << <<0, 0>> >>

(***************************************************************************)
(* tetromino.rs: the block.                                                *)
(***************************************************************************)
\* Block::spawn
Spawn(k) ==
  [tetromino |-> k, rotation |-> "Default",
   x |-> (Cols \div 2) - ((Len(Shape(k)) + 1) \div 2), y |-> -1,
   saved_rotation |-> None, saved_x |-> None, saved_y |-> None]

\* The closure `transform` of Block::shape: the base cell (row, column) read
\* for the cell (i, j) of the rotated matrix, counted from 0.
Transform(rot, i, j, len) ==
  CASE rot = "Default" -> <<i, j>>
    [] rot = "CCW" -> <<j, len - i - 1>>
    [] rot = "Reverse" -> <<len - i - 1, len - j - 1>>
    [] rot = "CW" -> <<len - j - 1, i>>

\* Block::shape
BlockShape(b) ==
  LET shape == Shape(b.tetromino)
      len == Len(shape)
  IN [i \in 1..len |->
       [j \in 1..len |->
         LET t == Transform(b.rotation, i - 1, j - 1, len)
         IN shape[t[1] + 1][t[2] + 1]]]

\* Block::begin
Begin(b, x, y, rotation) ==
  [b EXCEPT !.saved_x = Some(b.x), !.saved_y = Some(b.y),
            !.saved_rotation = Some(b.rotation),
            !.x = x, !.y = y, !.rotation = rotation]

\* Block::commit
Commit(b) ==
  [b EXCEPT !.saved_x = None, !.saved_y = None, !.saved_rotation = None]

\* Block::revert restoring the rotation only.
RevertRotation(b) ==
  [b EXCEPT !.saved_x = None, !.saved_y = None,
            !.rotation = IF b.saved_rotation # None THEN b.saved_rotation[1]
                         ELSE b.rotation,
            !.saved_rotation = None]

\* Block::revert
Revert(b) ==
  [b EXCEPT !.x = IF b.saved_x # None THEN b.saved_x[1] ELSE b.x,
            !.saved_x = None,
            !.y = IF b.saved_y # None THEN b.saved_y[1] ELSE b.y,
            !.saved_y = None,
            !.rotation = IF b.saved_rotation # None THEN b.saved_rotation[1]
                         ELSE b.rotation,
            !.saved_rotation = None]

\* Block::end committing whatever it is told.
EndCommitting(b, commit) == Commit(b)

\* Block::end
End(b, commit) == IF commit THEN Commit(b) ELSE Revert(b)

(***************************************************************************)
(* tetrisfield.rs: the field.                                              *)
(***************************************************************************)
\* TetrisField::new
NewField == [y \in 1..Rows |-> [x \in 1..Cols |-> 0]]

\* TetrisField::in_bounds
InBounds(f, x, y, relaxed) ==
  /\ (relaxed \/ 0 <= y)
  /\ y < Len(f)
  /\ 0 <= x
  /\ x < Len(f[1])

\* TetrisField::has_collision
HasCollision(f, b) ==
  LET shape == BlockShape(b)
      len == Len(shape)
  IN \E j \in 0..(Len(f) - 1) : \E i \in 0..(Len(f[1]) - 1) :
       LET inner_x == i - b.x
           inner_y == j - b.y
       IN /\ 0 <= inner_x /\ inner_x < len
          /\ 0 <= inner_y /\ inner_y < len
          /\ shape[inner_y + 1][inner_x + 1] > 0
          /\ f[j + 1][i + 1] > 0

\* TetrisField::has_overflow
HasOverflow(f, b) ==
  LET shape == BlockShape(b)
      len == Len(shape)
  IN \E j \in 0..(len - 1) : \E i \in 0..(len - 1) :
       /\ shape[j + 1][i + 1] > 0
       /\ ~InBounds(f, b.x + i, b.y + j, TRUE)

\* The test `!has_overflow && !has_collision` of try_move and try_rotate.
Fits(f, b) == ~HasOverflow(f, b) /\ ~HasCollision(f, b)

\* block.end(ok) and the return of try_move and try_rotate: the value
\* returned and the block as it is left.
Ended(tried, ok) == [ok |-> ok, block |-> End(tried, ok)]

\* TetrisField::try_move
TryMove(f, b, x, y) ==
  Ended(Begin(b, b.x + x, b.y + y, b.rotation),
        Fits(f, Begin(b, b.x + x, b.y + y, b.rotation)))

\* The candidate of try_rotate for the n-th offset: block.begin(x + dx,
\* y + dy, rotation.next(dir)).
Kicked(b, kick) ==
  Begin(b, b.x + kick[1], b.y + kick[2], RotationNext(b.rotation, Dir(b.tetromino)))

\* The loop of TetrisField::try_rotate from the n-th offset on: the first
\* candidate that fits is committed, every other one reverted.
RECURSIVE TryRotateFrom(_, _, _, _)
TryRotateFrom(f, b, kicks, n) ==
  IF n > Len(kicks) THEN [ok |-> FALSE, block |-> b]
  ELSE IF Fits(f, Kicked(b, kicks[n])) THEN Ended(Kicked(b, kicks[n]), TRUE)
  ELSE TryRotateFrom(f, Ended(Kicked(b, kicks[n]), FALSE).block, kicks, n + 1)

\* TetrisField::try_rotate
TryRotate(f, b) == TryRotateFrom(f, b, Wallkick(b.tetromino, b.rotation), 1)

\* The smallest and the largest element of a non-empty set of integers.
SetMin(S) == CHOOSE m \in S : \A n \in S : m <= n
SetMax(S) == CHOOSE m \in S : \A n \in S : m >= n

\* TetrisField::altitude taking the gap to be `highest - lowest`.
AltitudeDeep(f, b) ==
  LET shape == BlockShape(b)
      len == Len(shape)
      cols == {i \in 0..(len - 1) : \E j \in 0..(len - 1) : shape[j + 1][i + 1] > 0}
      lowest(i) == SetMax({j \in 0..(len - 1) : shape[j + 1][i + 1] > 0}) + b.y
      highest(i) ==
        SetMin({y \in 0..(Len(f) - 1) : f[y + 1][b.x + i + 1] > 0} \cup {Len(f)})
  IN SetMin({Len(f)} \cup {highest(i) - lowest(i) : i \in cols})

\* TetrisField::altitude.  For each column i of the shape that holds a cell,
\* `lowest` is the grid row of the last such cell and `highest` the first
\* occupied grid row of that column found scanning from row 0, or the number
\* of rows.
Altitude(f, b) ==
  LET shape == BlockShape(b)
      len == Len(shape)
      cols == {i \in 0..(len - 1) : \E j \in 0..(len - 1) : shape[j + 1][i + 1] > 0}
      lowest(i) == SetMax({j \in 0..(len - 1) : shape[j + 1][i + 1] > 0}) + b.y
      highest(i) ==
        SetMin({y \in 0..(Len(f) - 1) : f[y + 1][b.x + i + 1] > 0} \cup {Len(f)})
  IN SetMin({Len(f)} \cup {highest(i) - lowest(i) - 1 : i \in cols})

\* TetrisField::drop stopping one row short of the distance.
DropShort(f, b) ==
  LET altitude == Altitude(f, b)
  IN [altitude |-> altitude,
      block |-> [b EXCEPT !.y = b.y + (IF altitude > 0 THEN altitude - 1 ELSE altitude)]]

\* TetrisField::drop: the value returned and the block as it is left.
Drop(f, b) ==
  LET altitude == Altitude(f, b)
  IN [altitude |-> altitude, block |-> [b EXCEPT !.y = b.y + altitude]]

\* The cells a block covers inside the grid: the test
\* `cell > 0 && self.in_bounds(x, y, false)` of consume and field_with_block.
\* The value is the set of <<grid row, grid column, cell>>.
BlockCells(f, b) ==
  LET shape == BlockShape(b)
      len == Len(shape)
  IN {<<b.y + j, b.x + i, shape[j + 1][i + 1]>> :
        <<j, i>> \in {c \in (0..(len - 1)) \X (0..(len - 1)) :
                       /\ shape[c[1] + 1][c[2] + 1] > 0
                       /\ InBounds(f, b.x + c[2], b.y + c[1], FALSE)}}

\* The grid as it is, no cell of the block written into it.
FieldWithBlockBare(f, b) == f

\* The grid with the cells of a block written into it: the loop of consume,
\* and field_with_block.
FieldWithBlock(f, b) ==
  LET cells == BlockCells(f, b)
  IN [y \in 1..Len(f) |->
       [x \in 1..Len(f[y]) |->
         IF \E c \in cells : c[1] = y - 1 /\ c[2] = x - 1
         THEN (CHOOSE c \in cells : c[1] = y - 1 /\ c[2] = x - 1)[3]
         ELSE f[y][x]]]

\* Vec::from_iter(affected_lines) followed by sort(): ascending.
RECURSIVE SortedSeq(_)
SortedSeq(S) ==
  IF S = {} THEN << >>
  ELSE LET m == SetMin(S) IN <<m>> \o SortedSeq(S \ {m})

\* Vec::remove(line) followed by push(vec![0; len]): the empty row is added
\* at the bottom.
RemoveLinePushing(f, line) ==
  LET removed == [y \in 1..(Len(f) - 1) |-> IF y - 1 < line THEN f[y] ELSE f[y + 1]]
  IN removed \o << [x \in 1..Len(removed[1]) |-> 0] >>

\* Vec::remove(line) followed by insert(0, vec![0; len]).
RemoveLine(f, line) ==
  LET removed == [y \in 1..(Len(f) - 1) |-> IF y - 1 < line THEN f[y] ELSE f[y + 1]]
  IN << [x \in 1..Len(removed[1]) |-> 0] >> \o removed

\* The second loop of check_filled leaving after the first entry of `drop`.
RemoveLinesOnce(f, drop, n) ==
  IF n > Len(drop) THEN f ELSE RemoveLine(f, drop[n])

\* The second loop of check_filled, from the n-th entry of `drop` on.
RECURSIVE RemoveLines(_, _, _)
RemoveLines(f, drop, n) ==
  IF n > Len(drop) THEN f
  ELSE RemoveLines(RemoveLine(f, drop[n]), drop, n + 1)

\* TetrisField::check_filled: `lines` is a sequence of row indices; the
\* value is the grid as it is left and the number returned.
CheckFilled(f, lines) ==
  LET IsFull(line) == \A i \in 1..Len(f[line + 1]) : f[line + 1][i] # 0
      drop == SelectSeq(lines, IsFull)
  IN [field |-> RemoveLines(f, drop, 1), lines |-> Len(drop)]

\* TetrisField::consume
Consume(f, b) ==
  LET affected_lines == {c[1] : c \in BlockCells(f, b)}
  IN CheckFilled(FieldWithBlock(f, b), SortedSeq(affected_lines))

(***************************************************************************)
(* settings.rs: the menu.                                                  *)
(***************************************************************************)
\* The indices (from 0) of the selectable items.
Selectable(items) == {i \in 0..(Len(items) - 1) : items[i + 1].selectable}

\* items.iter().position(|item| item.selectable)
Position(items) ==
  IF Selectable(items) = {} THEN None ELSE Some(SetMin(Selectable(items)))

\* items.iter().rposition(|item| item.selectable)
RPosition(items) ==
  IF Selectable(items) = {} THEN None ELSE Some(SetMax(Selectable(items)))

\* MenuMode::new
MenuNew(items) == [items |-> items, selected |-> Position(items)]

\* MenuMode::down staying on the last selectable item.
MenuDownStopping(menu) ==
  IF menu.selected = None THEN menu
  ELSE LET after == {i \in Selectable(menu.items) : i > menu.selected[1]}
       IN [menu EXCEPT !.selected =
             IF after # {} THEN Some(SetMin(after)) ELSE menu.selected]

\* MenuMode::down
MenuDown(menu) ==
  IF menu.selected = None THEN menu
  ELSE LET after == {i \in Selectable(menu.items) : i > menu.selected[1]}
       IN [menu EXCEPT !.selected =
             IF after # {} THEN Some(SetMin(after)) ELSE Position(menu.items)]

\* MenuMode::up
MenuUp(menu) ==
  IF menu.selected = None THEN menu
  ELSE LET before == {i \in Selectable(menu.items) : i < menu.selected[1]}
       IN [menu EXCEPT !.selected =
             IF before # {} THEN Some(SetMax(before)) ELSE RPosition(menu.items)]

\* MenuMode::select yielding the first selectable item.
MenuSelectFirst(menu) ==
  IF menu.selected = None THEN None
  ELSE Some(menu.items[Position(menu.items)[1] + 1].id)

\* MenuMode::select
MenuSelect(menu) ==
  IF menu.selected = None THEN None
  ELSE Some(menu.items[menu.selected[1] + 1].id)

\* Tetris::pause_menu
PauseMenu ==
  MenuNew(<< [id |-> "Title", selectable |-> FALSE],
             [id |-> "Continue", selectable |-> TRUE],
             [id |-> "Restart", selectable |-> TRUE],
             [id |-> "Exit", selectable |-> TRUE] >>)

\* Tetris::over_menu
OverMenu ==
  MenuNew(<< [id |-> "Title", selectable |-> FALSE],
             [id |-> "Restart", selectable |-> TRUE],
             [id |-> "Exit", selectable |-> TRUE] >>)

(***************************************************************************)
(* game/tetris/mod.rs: the game.  A machine is the record of the fields of *)
(* struct Tetris.  The bag is kept as the number of entries of each kind:  *)
(* random_block shuffles the bag when it refills it and pops the last      *)
(* entry, and nothing else reads the order, so a draw removes any one      *)
(* entry the bag holds.                                                    *)
(***************************************************************************)
\* enum GameState (Temp, the value mem::take leaves, is never stored by a
\* handler that has returned)
Start == [tag |-> "Start"]
Fall(block, next) == [tag |-> "Fall", block |-> block, next |-> next]
Dropping(block, next) == [tag |-> "Drop", block |-> block, next |-> next]
GameOver == [tag |-> "GameOver"]

\* enum Action, and the Option<Action> of a frame call
Actions == {"Up", "Down", "Left", "Right", "Drop", "Escape"}
ActionOpts == {None} \cup {Some(a) : a \in Actions}

EmptyBag == [k \in Kinds |-> 0]
BagLen(bag) == bag["I"] + bag["T"] + bag["J"] + bag["L"] + bag["S"] + bag["Z"] + bag["O"]

\* Tetris::new
NewTetris(start) ==
  [moment |-> start, field |-> NewField, state |-> Start, pause |-> None,
   score |-> 0, bag |-> EmptyBag]

\* The refill of random_block made when one entry is left.
RefillEarly(bag) == IF BagLen(bag) <= 1 THEN [k \in Kinds |-> BAG_SIZE] ELSE bag

\* The refill of random_block: BAG_SIZE copies of the seven kinds, shuffled.
Refill(bag) == IF BagLen(bag) = 0 THEN [k \in Kinds |-> BAG_SIZE] ELSE bag

\* The kinds random_block may return: thread_rng decides the order.
CanDraw(bag, k) == Refill(bag)[k] > 0

\* Tetris::random_block returning k: the bag as it is left.
RandomBlock(bag, k) == [Refill(bag) EXCEPT ![k] = @ - 1]

\* run_cicle without its collision test.
RunCicleBlind(m, block, k) ==
  [m EXCEPT !.bag = RandomBlock(m.bag, k), !.state = Fall(block, k)]

\* Tetris::run_cicle, the draw returning k
RunCicle(m, block, k) ==
  [m EXCEPT !.bag = RandomBlock(m.bag, k),
            !.state = IF HasCollision(m.field, block) THEN GameOver
                      ELSE Fall(block, k)]

\* Tetris::state_start, the two draws returning k1 and then k2
StateStart(m, k1, k2) ==
  RunCicle([m EXCEPT !.bag = RandomBlock(m.bag, k1)], Spawn(k1), k2)

\* now.saturating_duration_since(self.moment)
SaturatingDurationSince(now, moment) == IF now >= moment THEN now - moment ELSE 0

\* What state_fall holds after a step: the block, the flags `changed` and
\* `drop`, and self.moment.
FallStep(block, changed, drop, mom) ==
  [block |-> block, changed |-> changed, drop |-> drop, moment |-> mom]

\* The arms Left, Right and Up setting `changed` whatever was returned.
FallMovedChanged(m, r) == FallStep(r.block, TRUE, FALSE, m.moment)

\* The arms Left, Right and Up of the `match action`: r is what try_move or
\* try_rotate returned.
FallMoved(m, r) == FallStep(r.block, r.ok, FALSE, m.moment)

\* The arm Down never setting `drop`.
FallSoftDropSliding(now, r) == FallStep(r.block, r.ok, FALSE, now)

\* The arm Down: self.moment = now, then r is what try_move(block, 0, 1)
\* returned.
FallSoftDrop(now, r) == FallStep(r.block, r.ok, ~r.ok, now)

\* The arm Drop: r is what TetrisField::drop returned.
FallHardDrop(m, r) == FallStep(r.block, r.altitude > 0, TRUE, m.moment)

\* The `match action` of state_fall
FallAction(m, now, action) ==
  CASE action = Some("Left") -> FallMoved(m, TryMove(m.field, m.state.block, -1, 0))
    [] action = Some("Right") -> FallMoved(m, TryMove(m.field, m.state.block, 1, 0))
    [] action = Some("Down") -> FallSoftDrop(now, TryMove(m.field, m.state.block, 0, 1))
    [] action = Some("Drop") -> FallHardDrop(m, Drop(m.field, m.state.block))
    [] action = Some("Up") -> FallMoved(m, TryRotate(m.field, m.state.block))
    [] OTHER -> FallStep(m.state.block, FALSE, FALSE, m.moment)

\* The body of the gravity `if` of state_fall: r is what
\* try_move(block, 0, 1) returned.
FallPulled(now, a, r) == FallStep(r.block, a.changed \/ r.ok, a.drop \/ ~r.ok, now)

\* The gravity step taken only when more than the delay has passed.
FallGravityLate(m, now, a) ==
  IF SaturatingDurationSince(now, a.moment) > Delay
  THEN FallPulled(now, a, TryMove(m.field, a.block, 0, 1))
  ELSE a

\* The gravity step of state_fall, applied to what the match left.
FallGravity(m, now, a) ==
  IF SaturatingDurationSince(now, a.moment) >= Delay
  THEN FallPulled(now, a, TryMove(m.field, a.block, 0, 1))
  ELSE a

\* The end of state_fall: Fall becomes Drop when `drop` is set, and `changed`
\* is returned.
FallEnd(m, g) ==
  [m |-> [m EXCEPT !.moment = g.moment,
                   !.state = IF g.drop THEN Dropping(g.block, m.state.next)
                             ELSE Fall(g.block, m.state.next)],
   changed |-> g.changed]

\* Tetris::state_fall: the machine as it is left and the value returned.
StateFall(m, now, action) ==
  FallEnd(m, FallGravity(m, now, FallAction(m, now, action)))

\* state_drop adding the number of lines to the score.
LockedLinear(m, c, k) ==
  RunCicle([m EXCEPT !.field = c.field, !.score = m.score + c.lines],
           Spawn(m.state.next), k)

\* state_drop after consume: c is the grid consume left and the number it
\* returned; the draw of run_cicle returns k.
Locked(m, c, k) ==
  RunCicle([m EXCEPT !.field = c.field,
                     !.score = m.score + ((c.lines * (c.lines + 1)) \div 2)],
           Spawn(m.state.next), k)

\* state_drop spawning the kind it draws instead of the preview.
StateDropSpawningDrawn(m, k) ==
  Locked([m EXCEPT !.state.next = k], Consume(m.field, m.state.block), k)

\* Tetris::state_drop, the draw of run_cicle returning k
StateDrop(m, k) == Locked(m, Consume(m.field, m.state.block), k)

\* Tetromino::preview
Preview(k) ==
  LET shape == Shape(k)
      Widen(row) ==
        LET v == IF Len(row) < 3 THEN <<0>> \o row ELSE row
        IN [x \in 1..4 |-> IF x <= Len(v) THEN v[x] ELSE 0]
      rows == [y \in 1..Len(shape) |-> Widen(shape[y])]
      v == IF Len(rows) < 4 THEN << <<0, 0, 0, 0>> >> \o rows ELSE rows
  IN [y \in 1..4 |-> IF y <= Len(v) THEN v[y] ELSE <<0, 0, 0, 0>>]

\* Tetris::to_drawable
ToDrawable(m) ==
  IF m.state.tag \in {"Fall", "Drop"}
  THEN [main |-> FieldWithBlock(m.field, m.state.block),
        preview |-> Preview(m.state.next), score |-> m.score]
  ELSE [main |-> m.field, preview |-> << << >> >>, score |-> m.score]

\* enum GameChange
Draw(game) == [tag |-> "Draw", game |-> game]
Text(menu) == [tag |-> "Text", menu |-> menu]
Restart == [tag |-> "Restart"]
Exit == [tag |-> "Exit"]
Idle == [tag |-> "Idle"]

\* The last match of frame: what is returned when no arm returned before.
Rendered(m) ==
  IF m.pause # None THEN Text(m.pause[1]) ELSE Draw(ToDrawable(m))

\* One call of frame: the machine as it is left, the value returned and the
\* kinds random_block returned during the call.
Outcome(m, ret, drawn) == [m |-> m, ret |-> ret, drawn |-> drawn]

\* The machine n is rendered and returned: the fall-through of frame.
Shown(n, drawn) == Outcome(n, Rendered(n), drawn)

\* frame, no overlay, Escape, taking the state as the handlers do and not
\* putting it back.
FramePauseTaking(m) ==
  Shown([m EXCEPT !.pause = Some(PauseMenu), !.state = [tag |-> "Temp"]], << >>)

\* frame, no overlay, Escape: the pause menu is laid over the game.
FramePause(m) == Shown([m EXCEPT !.pause = Some(PauseMenu)], << >>)

\* frame, no overlay, GameState::Start
FrameStart(m, k1, k2) == Shown(StateStart(m, k1, k2), <<k1, k2>>)

\* The arm GameState::Fall of frame: r is what state_fall left and returned,
\* and Idle is returned when it returned false.
FallShown(r) == Outcome(r.m, IF r.changed THEN Rendered(r.m) ELSE Idle, << >>)

\* frame, no overlay, GameState::Fall
FrameFall(m, now, action) == FallShown(StateFall(m, now, action))

\* frame, no overlay, GameState::Drop
FrameDrop(m, k) == Shown(StateDrop(m, k), <<k>>)

\* frame, no overlay, GameState::GameOver, laying the pause menu over.
FrameGameOverPaused(m) == Shown([m EXCEPT !.pause = Some(PauseMenu)], << >>)

\* frame, no overlay, GameState::GameOver: the game-over menu is laid over.
FrameGameOver(m) == Shown([m EXCEPT !.pause = Some(OverMenu)], << >>)

\* frame, an overlay is active: the arm `Some(menu) => match action`.
FrameMenu(m, action) ==
  CASE action = Some("Escape") -> Shown([m EXCEPT !.pause = None], << >>)
    [] action = Some("Up") -> Shown([m EXCEPT !.pause = Some(MenuUp(m.pause[1]))], << >>)
    [] action = Some("Down") -> Shown([m EXCEPT !.pause = Some(MenuDown(m.pause[1]))], << >>)
    [] action = Some("Drop") ->
         (CASE MenuSelect(m.pause[1]) = Some("Continue") ->
                 Shown([m EXCEPT !.pause = None], << >>)
            [] MenuSelect(m.pause[1]) = Some("Restart") -> Outcome(m, Restart, << >>)
            [] MenuSelect(m.pause[1]) = Some("Exit") -> Outcome(m, Exit, << >>)
            [] OTHER -> Outcome(m, [tag |-> "unreachable"], << >>))
    [] OTHER -> Outcome(m, Idle, << >>)

\* Tetris::frame, random_block returning k1 and then k2 if it is called.
Frame(m, now, action, k1, k2) ==
  IF m.pause = None
  THEN IF action = Some("Escape") THEN FramePause(m)
       ELSE CASE m.state.tag = "Start" -> FrameStart(m, k1, k2)
              [] m.state.tag = "Fall" -> FrameFall(m, now, action)
              [] m.state.tag = "Drop" -> FrameDrop(m, k1)
              [] m.state.tag = "GameOver" -> FrameGameOver(m)
  ELSE FrameMenu(m, action)

\* The draws a frame call makes, in order, are possible ones.
CanDrawAll(m, action, k1, k2) ==
  IF m.pause = None /\ action # Some("Escape") /\ m.state.tag \in {"Start", "Drop"}
  THEN /\ CanDraw(m.bag, k1)
       /\ IF m.state.tag = "Start" THEN CanDraw(RandomBlock(m.bag, k1), k2) ELSE k2 = k1
  ELSE k1 = "I" /\ k2 = "I"

(***************************************************************************)
(* The state: the fields of struct Tetris, the value the last frame call   *)
(* returned, the kinds it drew, and the number of frame calls made.        *)
(***************************************************************************)
VARIABLES moment, field, state, pause, score, bag, ret, drawn, ticks, twin

vars == <<moment, field, state, pause, score, bag, ret, drawn, ticks, twin>>

\* The machine the variables hold.
Self ==
  [moment |-> moment, field |-> field, state |-> state, pause |-> pause,
   score |-> score, bag |-> bag]

\* The variables take the outcome o of a frame call.
Becomes(o) ==
  /\ moment' = o.m.moment
  /\ field' = o.m.field
  /\ state' = o.m.state
  /\ pause' = o.m.pause
  /\ score' = o.m.score
  /\ bag' = o.m.bag
  /\ ret' = o.ret
  /\ drawn' = o.drawn
  /\ ticks' = ticks + 1

NoTwin == [tag |-> "NoTwin"]

\* Tetris::new(settings, start), before the first frame call.
Init ==
  /\ \E start \in {0} :
       /\ moment = NewTetris(start).moment
       /\ field = NewTetris(start).field
       /\ state = NewTetris(start).state
       /\ pause = NewTetris(start).pause
       /\ score = NewTetris(start).score
       /\ bag = NewTetris(start).bag
  /\ ret = [tag |-> "None"]
  /\ drawn = << >>
  /\ ticks = 0
  /\ twin = NoTwin

\* frame(now, Some(Escape)) with no overlay
TickPause ==
  /\ ticks < MaxTicks
  /\ pause = None
  /\ Becomes(FramePause(Self))
  /\ UNCHANGED twin

\* frame(now, action) in GameState::Start
TickStart ==
  /\ ticks < MaxTicks
  /\ pause = None /\ state.tag = "Start"
  /\ \E k1, k2 \in Kinds :
       /\ CanDraw(bag, k1) /\ CanDraw(RandomBlock(bag, k1), k2)
       /\ Becomes(FrameStart(Self, k1, k2))
  /\ UNCHANGED twin

\* frame(now, action) in GameState::Fall
TickFall ==
  /\ ticks < MaxTicks
  /\ pause = None /\ state.tag = "Fall"
  /\ \E now \in Times, action \in ActionOpts \ {Some("Escape")} :
       Becomes(FrameFall(Self, now, action))
  /\ UNCHANGED twin

\* frame(now, action) in GameState::Drop
TickDrop ==
  /\ ticks < MaxTicks
  /\ pause = None /\ state.tag = "Drop"
  /\ \E k \in Kinds : CanDraw(bag, k) /\ Becomes(FrameDrop(Self, k))
  /\ UNCHANGED twin

\* frame(now, action) in GameState::GameOver
TickGameOver ==
  /\ ticks < MaxTicks
  /\ pause = None /\ state.tag = "GameOver"
  /\ Becomes(FrameGameOver(Self))
  /\ UNCHANGED twin

\* frame(now, action) while an overlay is active
TickMenu ==
  /\ ticks < MaxTicks
  /\ pause # None
  /\ \E action \in ActionOpts : Becomes(FrameMenu(Self, action))
  /\ UNCHANGED twin

Next == TickPause \/ TickStart \/ TickFall \/ TickDrop \/ TickGameOver \/ TickMenu

Spec == Init /\ [][Next]_vars

(***************************************************************************)
(* The field operations and one frame call as functions of a position:     *)
(* the game is entered at a mid-game position drawn from a bounded family  *)
(* of grids (sparse ones, with at most MaxCells occupied cells, and stacks *)
(* of rows that each miss one cell), with a block anywhere it fits; a      *)
(* block waiting to be locked rests on something.                          *)
(***************************************************************************)
Cells == (0..(Rows - 1)) \X (0..(Cols - 1))

\* The sets of at most n cells.
RECURSIVE CellSets(_)
CellSets(n) ==
  IF n = 0 THEN {{}}
  ELSE CellSets(n - 1) \cup {S \cup {c} : S \in CellSets(n - 1), c \in Cells}

\* The colour index a cell of an input grid carries when it is occupied.
Colour(y, x) == ((y + x) % 7) + 1

SparseField(S) ==
  [y \in 1..Rows |-> [x \in 1..Cols |->
     IF <<y - 1, x - 1>> \in S THEN Colour(y - 1, x - 1) ELSE 0]]

\* The lowest k rows are occupied but for the column hole[y] of each.
DenseField(k, hole) ==
  [y \in 1..Rows |-> [x \in 1..Cols |->
     IF y > Rows - k /\ x - 1 # hole[y] THEN Colour(y - 1, x - 1) ELSE 0]]

FieldInputs ==
  {SparseField(S) : S \in CellSets(MaxCells)}
    \cup UNION {{DenseField(k, hole) : hole \in [(Rows - k + 1)..Rows -> 0..(Cols - 1)]} :
                 k \in 1..Rows}

\* The rotation states Rotation::next leads a kind through from Default.
RotationsOf(k) ==
  CASE Dir(k) = "Full" -> Rotations
    [] Dir(k) = "Half" -> {"Default", "CCW"}
    [] Dir(k) = "None" -> {"Default"}

\* A block of kind k at (x, y) in rotation state rot, nothing saved.
Placed(k, rot, x, y) == [Spawn(k) EXCEPT !.rotation = rot, !.x = x, !.y = y]

BlockInputs ==
  UNION {{Placed(k, rot, x, y) : rot \in RotationsOf(k), x \in -2..(Cols - 1),
                                 y \in -2..(Rows - 1)} : k \in Kinds}

\* The preview kind an input position carries.
NextInput(k) ==
  CASE k = "I" -> "T" [] k = "T" -> "J" [] k = "J" -> "L" [] k = "L" -> "S"
    [] k = "S" -> "Z" [] k = "Z" -> "O" [] k = "O" -> "I"

\* The score an input position carries.
ScoreInput == 7

\* A block is falling, or rests and waits to be locked; the pause menu may
\* lie over the game.
InitPlaying ==
  /\ field \in FieldInputs
  /\ \E b \in BlockInputs, tag \in {"Fall", "Drop"} :
       /\ Fits(field, b)
       /\ tag = "Drop" => ~Fits(field, [b EXCEPT !.y = @ + 1])
       /\ state = [tag |-> tag, block |-> b, next |-> NextInput(b.tetromino)]
  /\ pause \in (IF field = NewField THEN {None, Some(PauseMenu)} ELSE {None})
  /\ score = ScoreInput
  /\ bag = [EmptyBag EXCEPT !["I"] = 1]

\* The machine as Tetris::new leaves it.
InitStarting ==
  /\ field = NewTetris(0).field
  /\ state = NewTetris(0).state
  /\ pause = NewTetris(0).pause
  /\ score = NewTetris(0).score
  /\ bag = NewTetris(0).bag

\* The game is over: some kind collides where it spawns; the game-over menu
\* may lie over the game.
InitOver ==
  /\ field \in FieldInputs
  /\ \E k \in Kinds : HasCollision(field, Spawn(k))
  /\ state = GameOver
  /\ pause \in {None, Some(OverMenu)}
  /\ score = ScoreInput
  /\ bag = [EmptyBag EXCEPT !["I"] = 1]

InitField ==
  /\ moment = 0
  /\ InitPlaying \/ InitStarting \/ InitOver
  /\ ret = [tag |-> "None"]
  /\ drawn = << >>
  /\ ticks = MaxTicks - 1
  /\ twin = NoTwin

\* TetrisField::drop applied to the position.
FieldDrop ==
  /\ ret.tag = "None" /\ state.tag = "Fall"
  /\ \E r \in {Drop(field, state.block)} :
       /\ state' = [state EXCEPT !.block = r.block]
       /\ ret' = [tag |-> "drop", altitude |-> r.altitude]
  /\ UNCHANGED <<moment, field, pause, score, bag, drawn, ticks, twin>>

\* TetrisField::consume applied to the position.
FieldConsume ==
  /\ ret.tag = "None" /\ state.tag = "Drop"
  /\ \E c \in {Consume(field, state.block)} :
       /\ field' = c.field
       /\ ret' = [tag |-> "consume", lines |-> c.lines]
  /\ UNCHANGED <<moment, state, pause, score, bag, drawn, ticks, twin>>

\* One frame call from the position.
FieldPause == ret.tag = "None" /\ TickPause

FieldFall == ret.tag = "None" /\ TickFall

FieldLock == ret.tag = "None" /\ TickDrop

FieldStart == ret.tag = "None" /\ TickStart

FieldGameOver == ret.tag = "None" /\ TickGameOver

FieldMenu == ret.tag = "None" /\ TickMenu

NextField ==
  \/ FieldDrop \/ FieldConsume
  \/ FieldPause \/ FieldStart \/ FieldFall \/ FieldLock \/ FieldGameOver \/ FieldMenu

SpecField == InitField /\ [][NextField]_vars

(***************************************************************************)
(* Two machines constructed alike and fed the same frame calls: `twin` is  *)
(* the second machine, with what its last frame call returned and drew.    *)
(***************************************************************************)
InitPair ==
  /\ moment = NewTetris(0).moment
  /\ field = NewTetris(0).field
  /\ state = NewTetris(0).state
  /\ pause = NewTetris(0).pause
  /\ score = NewTetris(0).score
  /\ bag = NewTetris(0).bag
  /\ ret = [tag |-> "None"]
  /\ drawn = << >>
  /\ ticks = 0
  /\ twin = Outcome(NewTetris(0), [tag |-> "None"], << >>)

\* frame(now, action) on both machines; each draws from its own shuffle.
PairTick ==
  /\ ticks < MaxPairTicks
  /\ \E now \in Times, action \in ActionOpts :
       /\ \E k1, k2 \in Kinds :
            /\ CanDrawAll(Self, action, k1, k2)
            /\ Becomes(Frame(Self, now, action, k1, k2))
       /\ \E k1, k2 \in Kinds :
            /\ CanDrawAll(twin.m, action, k1, k2)
            /\ twin' = Frame(twin.m, now, action, k1, k2)

SpecPair == InitPair /\ [][PairTick]_vars

(***************************************************************************)
(* The properties.  A step of the machine is matched against frame by the  *)
(* inputs that produce it: the kinds drawn are read off drawn'.            *)
(***************************************************************************)
Drew(i) == IF Len(drawn') >= i THEN drawn'[i] ELSE "I"

\* The step is the frame call frame(now, action).
IsFrame(now, action) ==
  /\ ticks' = ticks + 1
  /\ Outcome(Self', ret', drawn') = Frame(Self, now, action, Drew(1), Drew(2))

NotEscape == ActionOpts \ {Some("Escape")}

\* The step is a frame call processed in GameState tag: no overlay, and an
\* action other than Escape.
TickIn(tag) ==
  /\ pause = None /\ state.tag = tag
  /\ \E now \in Times, action \in NotEscape : IsFrame(now, action)

\* The block b moved down by d rows.
Lowered(b, d) == [b EXCEPT !.y = @ + d]

\* The number of rows a block can descend through placements that neither
\* collide nor overflow.
MaxDescent(f, b) ==
  SetMax({d \in 0..Len(f) : \A e \in 0..d : Fits(f, Lowered(b, e))})

\* C1: for every grid and every placement that neither overflows nor
\* collides, the distance TetrisField::drop computes is the exact maximal
\* non-colliding descent, the gap to the highest occupied cell below the
\* piece, also when occupied cells lie above the piece; the piece moved by it
\* fits and one row further it does not.
C1_AltitudeIsMaximalDescent ==
  [][ret'.tag = "drop" =>
       /\ ret'.altitude = MaxDescent(field, state.block)
       /\ state'.block = Lowered(state.block, ret'.altitude)
       /\ Fits(field, state'.block)
       /\ ~Fits(field, Lowered(state'.block, 1))]_vars

\* The rows of the grid a block writes to, and those of them the write fills.
TouchedRows(f, b) == {c[1] : c \in BlockCells(f, b)}
FullRows(f, b) ==
  {y \in TouchedRows(f, b) :
     \A x \in 1..Len(f[y + 1]) : FieldWithBlock(f, b)[y + 1][x] # 0}

\* The written grid w with the rows `full` deleted, the other rows in their
\* order, and as many empty rows on top.
WithoutRows(w, full) ==
  LET kept == SortedSeq((0..(Len(w) - 1)) \ full)
      n == Cardinality(full)
  IN [y \in 1..Len(w) |->
       IF y <= n THEN [x \in 1..Len(w[1]) |-> 0] ELSE w[kept[y - n] + 1]]

\* C5: consume returns the number of touched rows the write fills, and
\* leaves the written grid with exactly those rows deleted, the remaining
\* rows in their relative order and as many empty rows on top; touched rows
\* that are not full and the dimensions are unchanged.
C5_ConsumeClearsFullRows ==
  [][ret'.tag = "consume" =>
       /\ ret'.lines = Cardinality(FullRows(field, state.block))
       /\ field' = WithoutRows(FieldWithBlock(field, state.block),
                               FullRows(field, state.block))
       /\ Len(field') = Len(field)
       /\ \A y \in 1..Len(field) : Len(field'[y]) = Len(field[y])]_vars

\* consume has cleared two of the rows an upright I touched, and the cells
\* written to the other two have come down.
C5_Witness ==
  /\ ret.tag = "consume" /\ ret.lines = 2
  /\ state.block.tetromino = "I" /\ state.block.rotation = "CCW"
  /\ \E x \in 1..Cols : field[Rows][x] = 1 /\ field[Rows - 1][x] = 1

\* What the overlay lies over: the state with its piece and preview kind,
\* the grid, the score, the bag and the gravity reference.
Game == <<state, field, score, bag, moment>>

\* C2: a frame call with action Escape and no overlay, and every frame call
\* while an overlay is active, whatever the action and the timestamp, leaves
\* the state variant, the active piece, the preview kind, the grid, the
\* score, the bag and the gravity reference unchanged.
C2_OverlayKeepsGame ==
  [][\A now \in Times, action \in ActionOpts :
       ((pause # None \/ action = Some("Escape")) /\ IsFrame(now, action))
         => Game' = Game]_vars

\* The pause menu lies over a falling piece and a frame call has moved its
\* selection.
C2_Witness ==
  /\ pause # None /\ state.tag = "Fall" /\ ret.tag = "Text"
  /\ pause[1].selected # PauseMenu.selected

\* The kind a frame call processed in Start or Drop spawns.
Spawned == IF state.tag = "Start" THEN Drew(1) ELSE state.next

\* C3: when the piece spawned by a frame call processed in Start or Drop
\* collides with the grid where it spawns, the state after the call is
\* GameOver, whatever the action.
C3_SpawnCollisionEndsGame ==
  [][\A tag \in {"Start", "Drop"} :
       (TickIn(tag) /\ HasCollision(field', Spawn(Spawned)))
         => state'.tag = "GameOver"]_vars

\* A frame call processed in Drop has ended the game.
C3_Witness ==
  /\ state.tag = "GameOver" /\ pause = None
  /\ ret.tag = "Draw" /\ Len(drawn) = 1
  /\ \E k \in Kinds : HasCollision(field, Spawn(k))

\* The points for n rows cleared at once.
Points(n) == CASE n = 0 -> 0 [] n = 1 -> 1 [] n = 2 -> 3 [] n = 3 -> 6 [] n = 4 -> 10

\* C4: a frame call processed in Drop that clears L rows adds L*(L+1)/2
\* (0, 1, 3, 6, 10) to the score; every other frame call leaves the score
\* unchanged, so the score never decreases.
C4_ScoreIsTriangular ==
  [][ticks' = ticks + 1 =>
       IF TickIn("Drop")
       THEN score' = score + Points(Cardinality(FullRows(field, state.block)))
       ELSE score' = score]_vars

\* A frame call processed in Drop has cleared four rows.
C4_Witness ==
  /\ Len(drawn) = 1 /\ ret.tag = "Draw" /\ score = ScoreInput + 10

\* A downward move of the block b is rejected.
Rejected(b) == ~Fits(field, Lowered(b, 1))

\* A downward move attempted during frame(now, action) in Fall is rejected:
\* the one of the action Down, or the one of gravity, which is due when the
\* delay has passed since the gravity reference and the action is not Down,
\* and which moves the block as the action has left it.
DownRejected(now, action) ==
  \/ action = Some("Down") /\ Rejected(state.block)
  \/ /\ action # Some("Down")
     /\ now - moment >= Delay
     /\ Rejected(FallAction(Self, now, action).block)

\* The state s a frame call frame(now, action) processed in Fall leaves is
\* Drop or Fall as the claim has it, with the kinds of the piece and of the
\* preview kept.
FallsTo(s, now, action) ==
  /\ s.tag = (IF action = Some("Drop") \/ DownRejected(now, action)
              THEN "Drop" ELSE "Fall")
  /\ s.block.tetromino = state.block.tetromino
  /\ s.next = state.next

\* C6: a frame call processed in Fall ends in Drop exactly when the action
\* was Drop or a downward move attempted during the call, by the action Down
\* or by gravity, was rejected; otherwise the state stays Fall; the piece
\* kind and the preview kind are the same in both cases.
C6_FallEndsInDrop ==
  (pause = None /\ state.tag = "Fall" /\ ticks < MaxTicks)
    => \A now \in Times, action \in NotEscape :
         FallsTo(Frame(Self, now, action, "I", "I").m.state, now, action)

\* A frame call in Fall whose downward move was rejected has left the piece
\* where it was, waiting to be locked.
C6_Witness ==
  /\ state.tag = "Drop" /\ pause = None
  /\ ret = Idle /\ moment = Delay /\ ticks = MaxTicks

\* The bag after a frame call that drew the kinds drawn'.
BagAfter ==
  IF Len(drawn') = 2
  THEN RandomBlock(RandomBlock(bag, drawn'[1]), drawn'[2])
  ELSE RandomBlock(bag, drawn'[1])

\* C7: a frame call processed in Drop locks the piece into the grid, clears
\* the full rows among the rows it touched and adds the score; then it
\* spawns the kind that was the preview before the call and draws one kind
\* from the bag as the new preview; a frame call processed in Start draws
\* two kinds, the piece and the preview.
C7_DropLocksThenSpawnsPreview ==
  [][/\ TickIn("Drop") =>
          /\ field' = WithoutRows(FieldWithBlock(field, state.block),
                                  FullRows(field, state.block))
          /\ score' = score + Points(Cardinality(FullRows(field, state.block)))
          /\ Len(drawn') = 1 /\ bag' = BagAfter
          /\ state' = IF HasCollision(field', Spawn(state.next)) THEN GameOver
                      ELSE Fall(Spawn(state.next), drawn'[1])
     /\ TickIn("Start") =>
          /\ Len(drawn') = 2 /\ bag' = BagAfter
          /\ state' = IF HasCollision(field', Spawn(drawn'[1])) THEN GameOver
                      ELSE Fall(Spawn(drawn'[1]), drawn'[2])]_vars

\* A frame call processed in Drop has cleared two rows and spawned a piece
\* of another kind than the one it drew.
C7_Witness ==
  /\ Len(drawn) = 1 /\ state.tag = "Fall" /\ score = ScoreInput + 3
  /\ state.block = Spawn(state.block.tetromino)
  /\ state.block.tetromino # drawn[1] /\ state.next = drawn[1]

\* The identifiers of the items of a menu that can be selected.
Choices(menu) == {menu.items[i + 1].id : i \in Selectable(menu.items)}

\* C8: once the state is GameOver it stays GameOver, and the grid and the
\* score do not change, whatever the frame calls; a frame call in GameOver
\* with no overlay and an action other than Escape presents the game-over
\* menu, which offers Restart and Exit.
C8_GameOverIsTerminal ==
  [][state.tag = "GameOver" =>
       /\ state'.tag = "GameOver" /\ field' = field /\ score' = score
       /\ TickIn("GameOver") =>
            /\ pause' # None /\ ret' = Text(pause'[1])
            /\ Choices(pause'[1]) = {"Restart", "Exit"}]_vars

\* The game is over and the game-over menu has been presented.
C8_Witness ==
  /\ state.tag = "GameOver" /\ pause # None /\ ret.tag = "Text"
  /\ Choices(ret.menu) = {"Restart", "Exit"}

\* C9: while an overlay is active, a frame call with action Escape discards
\* the overlay only if it is the pause menu; the game-over menu stays.
C9_EscapeKeepsOverMenu ==
  [][\A now \in Times :
       (pause # None /\ IsFrame(now, Some("Escape")))
         => IF "Continue" \in Choices(pause[1]) THEN pause' = None
            ELSE pause' = pause]_vars

\* C10: two machines constructed alike and fed the same frame calls return
\* the same values and pass through the same states: the same piece kinds,
\* grid and score.
C10_Deterministic ==
  /\ twin.ret = ret
  /\ twin.m.state = state /\ twin.m.field = field /\ twin.m.score = score

\* The leftmost column a cell of the block b lies in.
LeftmostColumn(b) ==
  SetMin({b.x + i : i \in {c \in 0..(Len(BlockShape(b)) - 1) :
                            \E j \in 1..Len(BlockShape(b)) : BlockShape(b)[j][c + 1] > 0}})

\* A frame call with action Left is to be made in Fall, with no overlay, on a
\* piece whose leftmost cell is in column 0.
AtLeftWall ==
  /\ pause = None /\ state.tag = "Fall" /\ ticks < MaxTicks
  /\ LeftmostColumn(state.block) = 0

\* The outcome o of a frame call keeps the piece where it is, in its
\* rotation, and returns Idle.
PieceKept(o) ==
  /\ o.ret = Idle
  /\ o.m.state.block.x = state.block.x
  /\ o.m.state.block.y = state.block.y
  /\ o.m.state.block.rotation = state.block.rotation

\* C11 as stated: in Fall with no overlay, a frame call with action Left on a
\* piece whose leftmost cell is in column 0 leaves x, y and the rotation
\* unchanged and returns Idle, whatever the timestamp.
C11_LeftAtWallIsIdle ==
  AtLeftWall =>
    \A now \in Times : PieceKept(Frame(Self, now, Some("Left"), "I", "I"))

\* C11 amended: the same, for the frame calls on which gravity is not due or
\* its downward move is rejected; when gravity moves the piece, the call
\* returns Draw and y has grown by one.
C11_LeftAtWallIsIdleUnlessPulled ==
  AtLeftWall =>
    \A now \in Times :
      IF SaturatingDurationSince(now, moment) >= Delay /\ ~Rejected(state.block)
      THEN /\ Frame(Self, now, Some("Left"), "I", "I").ret.tag = "Draw"
           /\ Frame(Self, now, Some("Left"), "I", "I").m.state.block
                = Lowered(state.block, 1)
      ELSE PieceKept(Frame(Self, now, Some("Left"), "I", "I"))

\* A frame call has returned Idle and left a falling piece at the left wall
\* with room below it.
C11_Witness ==
  /\ pause = None /\ state.tag = "Fall" /\ ret = Idle /\ ticks = MaxTicks
  /\ LeftmostColumn(state.block) = 0 /\ ~Rejected(state.block)

\* The picture of the game: the grid merged with the active piece.
Picture(b) == FieldWithBlock(field, b)

\* The outcome o of a frame call processed in Fall is Idle when the picture
\* is as before, and a Draw when it is not.
IdleIffSame(o) ==
  /\ o.ret.tag \in {"Idle", "Draw"}
  /\ (o.ret = Idle) <=> (Picture(o.m.state.block) = Picture(state.block))

\* C12: a frame call processed in Fall returns Idle exactly when the grid
\* merged with the active piece is the same after the call as before it, and
\* a Draw exactly when it differs.
C12_IdleIffNothingChanged ==
  (pause = None /\ state.tag = "Fall" /\ ticks < MaxTicks)
    => \A now \in Times, action \in NotEscape :
         IdleIffSame(Frame(Self, now, action, "I", "I"))

\* The machine n a frame call processed in Fall leaves has the gravity
\* reference `stamp`, and its piece is the piece of a, what the action left,
\* moved down by gravity if `due` and the move is accepted.
GravityAs(n, a, due, stamp) ==
  /\ n.moment = stamp
  /\ n.state.block =
       (IF due /\ ~Rejected(a.block) THEN Lowered(a.block, 1) ELSE a.block)

\* The delay has passed at `now` since the gravity reference.
DelayPassed(now) == SaturatingDurationSince(now, moment) >= Delay

\* C13 as stated: on a frame call processed in Fall, gravity's downward move
\* is attempted if and only if the timestamp less the gravity reference is at
\* least the delay, whatever the action, and the gravity reference is
\* updated only by a gravity attempt.
C13_GravityWhateverAction ==
  (pause = None /\ state.tag = "Fall" /\ ticks < MaxTicks)
    => \A now \in Times, action \in NotEscape :
         GravityAs(StateFall(Self, now, action).m, FallAction(Self, now, action),
                   DelayPassed(now),
                   IF DelayPassed(now) THEN now ELSE moment)

\* C13 amended: the action Down sets the gravity reference to the timestamp
\* before the delay is tested, so gravity is attempted if and only if the
\* delay has passed and the action is not Down, and the gravity reference is
\* updated by the action Down and by a gravity attempt only.
C13_GravityUnlessSoftDrop ==
  (pause = None /\ state.tag = "Fall" /\ ticks < MaxTicks)
    => \A now \in Times, action \in NotEscape :
         GravityAs(StateFall(Self, now, action).m, FallAction(Self, now, action),
                   DelayPassed(now) /\ action # Some("Down"),
                   IF DelayPassed(now) \/ action = Some("Down") THEN now
                   ELSE moment)

\* A frame call made when the delay had passed has moved the piece down and
\* set the gravity reference.
C13_Witness ==
  /\ pause = None /\ state.tag = "Fall" /\ ticks = MaxTicks
  /\ moment = Delay /\ ret.tag = "Draw"

(***************************************************************************)
(* try_rotate called again and again on a falling piece: ret counts the    *)
(* accepted calls and keeps the block the first call was given.            *)
(***************************************************************************)
InitRotate == InitField /\ state.tag = "Fall" /\ pause = None

\* The value ret takes when try_rotate, given b, has returned r: the first
\* call starts the count.
Rotated(b, r) ==
  IF ret.tag = "rotate"
  THEN [ret EXCEPT !.calls = @ + 1,
                   !.straight = @ /\ r.block.x = b.x /\ r.block.y = b.y]
  ELSE [tag |-> "rotate", calls |-> 1, origin |-> b,
        straight |-> r.block.x = b.x /\ r.block.y = b.y]

\* TetrisField::try_rotate returning r on the piece, r.ok being true.
Rotating(r) ==
  /\ r.ok
  /\ state' = [state EXCEPT !.block = r.block]
  /\ ret' = Rotated(state.block, r)

\* An accepted try_rotate call on the piece; four are made at most.
FieldRotate ==
  /\ ret.tag \in {"None", "rotate"}
  /\ ret.tag = "rotate" => ret.calls < 4
  /\ Rotating(TryRotate(field, state.block))
  /\ UNCHANGED <<moment, field, pause, score, bag, drawn, ticks, twin>>

SpecRotate == InitRotate /\ [][FieldRotate]_vars

\* The number of rotation states of a kind.
Period(k) ==
  CASE Dir(k) = "Full" -> 4 [] Dir(k) = "Half" -> 2 [] Dir(k) = "None" -> 1

\* C14: four successive accepted try_rotate calls on a T, J or L return the
\* piece to its rotation state and its shape; two do on an I, S or Z, and
\* one on an O; when each of the calls accepted the (0,0) candidate, x and y
\* are the original ones too.
C14_RotationCycle ==
  (ret.tag = "rotate" /\ ret.calls = Period(state.block.tetromino))
    => /\ state.block.rotation = ret.origin.rotation
       /\ BlockShape(state.block) = BlockShape(ret.origin)
       /\ ret.straight => (state.block.x = ret.origin.x
                           /\ state.block.y = ret.origin.y)

\* A T has been rotated four times in place.
C14_Witness ==
  /\ ret.tag = "rotate" /\ ret.calls = 4 /\ ret.straight
  /\ state.block.tetromino = "T" /\ state.block = ret.origin

(***************************************************************************)
(* random_block called again and again on the bag of a new machine: ret    *)
(* counts the calls, and how often each kind was returned in the running   *)
(* batch of 7 * BAG_SIZE calls.                                            *)
(***************************************************************************)
BatchSize == 7 * BAG_SIZE

\* The value ret takes when random_block returns k.
Counted(k) ==
  IF ret.tag = "random_block" /\ ret.draws % BatchSize # 0
  THEN [ret EXCEPT !.draws = @ + 1, !.batch[k] = @ + 1]
  ELSE [tag |-> "random_block",
        draws |-> (IF ret.tag = "random_block" THEN ret.draws ELSE 0) + 1,
        batch |-> [EmptyBag EXCEPT ![k] = 1]]

\* Tetris::random_block returning k.
BagDraw ==
  /\ ret.tag = "random_block" => ret.draws < MaxDraws
  /\ \E k \in Kinds :
       /\ CanDraw(bag, k)
       /\ bag' = RandomBlock(bag, k)
       /\ ret' = Counted(k)
  /\ UNCHANGED <<moment, field, state, pause, score, drawn, ticks, twin>>

SpecBag == Init /\ [][BagDraw]_vars

\* C15: a draw from the empty bag refills it with BAG_SIZE entries of each
\* of the seven kinds and removes one; each later draw removes one entry
\* without a refill until the bag is empty, which it is after exactly
\* 7 * BAG_SIZE draws; the next draw refills it again; and in each batch of
\* 7 * BAG_SIZE draws every kind is drawn exactly BAG_SIZE times.
C15_BagBatches ==
  ret.tag = "random_block" =>
    /\ BagLen(bag) = (BatchSize - (ret.draws % BatchSize)) % BatchSize
    /\ \A k \in Kinds : bag[k] + ret.batch[k] = BAG_SIZE
    /\ ret.draws % BatchSize = 0 =>
         (bag = EmptyBag /\ \A k \in Kinds : ret.batch[k] = BAG_SIZE)

\* The bag has been emptied by 7 * BAG_SIZE draws and refilled by the next.
C15_Witness ==
  /\ ret.tag = "random_block" /\ ret.draws = BatchSize + 1
  /\ BagLen(bag) = BatchSize - 1

(***************************************************************************)
(* try_move called once on a falling piece: ret keeps the offsets, the     *)
(* block the call was given and the value returned.                        *)
(***************************************************************************)
Shifts == (-MaxShift)..MaxShift

\* TetrisField::try_move(block, dx, dy) returning r on the block b.
Moving(b, dx, dy, r) ==
  /\ state' = [state EXCEPT !.block = r.block]
  /\ ret' = [tag |-> "try_move", dx |-> dx, dy |-> dy, origin |-> b, ok |-> r.ok]

FieldMove ==
  /\ ret.tag = "None"
  /\ \E dx, dy \in Shifts :
       Moving(state.block, dx, dy, TryMove(field, state.block, dx, dy))
  /\ UNCHANGED <<moment, field, pause, score, bag, drawn, ticks, twin>>

SpecMove == InitRotate /\ [][FieldMove]_vars

\* The block b at the offset (dx, dy), in its rotation, nothing saved.
Shifted(b, dx, dy) == [b EXCEPT !.x = @ + dx, !.y = @ + dy]

\* C16: try_move(piece, dx, dy) returns true if and only if the placement
\* at (x + dx, y + dy) in the same rotation neither overflows nor collides;
\* on true the piece ends exactly there, on false its x, y and rotation are
\* the ones it had; the rotation is unchanged in both cases.  (The grid is
\* borrowed immutably and is no output of the call.)
C16_TryMove ==
  ret.tag = "try_move" =>
    /\ ret.ok <=> (~HasOverflow(field, Shifted(ret.origin, ret.dx, ret.dy))
                   /\ ~HasCollision(field, Shifted(ret.origin, ret.dx, ret.dy)))
    /\ state.block = (IF ret.ok THEN Shifted(ret.origin, ret.dx, ret.dy)
                      ELSE ret.origin)
    /\ state.block.rotation = ret.origin.rotation

\* try_move has rejected a move to the left onto an occupied cell and left
\* the piece where it was.
C16_Witness ==
  /\ ret.tag = "try_move" /\ ~ret.ok /\ ret.dx = -1 /\ ret.dy = 0
  /\ HasCollision(field, Shifted(ret.origin, -1, 0))
  /\ state.block = ret.origin

(***************************************************************************)
(* try_rotate called once on a falling piece: ret keeps the block the call *)
(* was given and the value returned.                                       *)
(***************************************************************************)
\* TetrisField::try_rotate(block) returning r on the block b.
Turning(b, r) ==
  /\ state' = [state EXCEPT !.block = r.block]
  /\ ret' = [tag |-> "try_rotate", origin |-> b, ok |-> r.ok]

FieldTurn ==
  /\ ret.tag = "None"
  /\ Turning(state.block, TryRotate(field, state.block))
  /\ UNCHANGED <<moment, field, pause, score, bag, drawn, ticks, twin>>

SpecTurn == InitRotate /\ [][FieldTurn]_vars

\* The block b in its next rotation state at the offset kick.
Candidate(b, kick) ==
  [b EXCEPT !.x = @ + kick[1], !.y = @ + kick[2],
            !.rotation = RotationNext(@, Dir(b.tetromino))]

\* The places in the list `kicks` of the candidates of b that neither
\* overflow nor collide.
ValidKicks(b, kicks) ==
  {n \in 1..Len(kicks) : /\ ~HasOverflow(field, Candidate(b, kicks[n]))
                         /\ ~HasCollision(field, Candidate(b, kicks[n]))}

\* try_rotate, given b with the table `kicks`, has returned `ok` and left
\* the block `left`: the first valid candidate, or b if there is none.
FirstValid(b, kicks, valid, ok, left) ==
  /\ kicks[1] = <<0, 0>>
  /\ ok <=> valid # {}
  /\ left = (IF valid = {} THEN b ELSE Candidate(b, kicks[SetMin(valid)]))

\* C17: try_rotate tries the offsets of the kick table of the kind for the
\* current rotation state in the order of the table, the first being (0,0),
\* each with the next rotation state and relative to the position the piece
\* had, and commits the first candidate that neither overflows nor collides;
\* if there is none it returns false and leaves x, y and the rotation as
\* they were.
C17_TryRotate ==
  ret.tag = "try_rotate" =>
    FirstValid(ret.origin,
               Wallkick(ret.origin.tetromino, ret.origin.rotation),
               ValidKicks(ret.origin,
                          Wallkick(ret.origin.tetromino, ret.origin.rotation)),
               ret.ok, state.block)

\* try_rotate has committed the third candidate of the table.
C17_Witness ==
  /\ ret.tag = "try_rotate" /\ ret.ok
  /\ 3 \in ValidKicks(ret.origin,
                      Wallkick(ret.origin.tetromino, ret.origin.rotation))
  /\ state.block = Candidate(ret.origin,
                             Wallkick(ret.origin.tetromino, ret.origin.rotation)[3])

(***************************************************************************)
(* check_filled called on the grid a resting piece was written to, with    *)
(* the rows the piece touched in any order.                                *)
(***************************************************************************)
InitLines == InitField /\ state.tag = "Drop"

\* The sequences that list every element of the set S once.
Orders(S) ==
  {s \in [1..Cardinality(S) -> S] : \A i, j \in 1..Cardinality(S) : s[i] = s[j] => i = j}

\* TetrisField::check_filled(lines) returning c.
Checking(lines, c) ==
  /\ field' = c.field
  /\ ret' = [tag |-> "check_filled", lines |-> lines, count |-> c.lines]

FieldCheck ==
  /\ ret.tag = "None"
  /\ \E lines \in Orders(TouchedRows(field, state.block)) :
       Checking(lines, CheckFilled(FieldWithBlock(field, state.block), lines))
  /\ UNCHANGED <<moment, state, pause, score, bag, drawn, ticks, twin>>

SpecLines == InitLines /\ [][FieldCheck]_vars

\* C18: check_filled leaves the same grid and returns the same number for
\* every order of the list of rows it is given.
C18_OrderOfRowsIsIrrelevant ==
  [][ret'.tag = "check_filled" =>
       \A lines \in Orders(TouchedRows(field, state.block)) :
         /\ CheckFilled(FieldWithBlock(field, state.block), lines).field = field'
         /\ CheckFilled(FieldWithBlock(field, state.block), lines).lines
              = ret'.count]_vars

(***************************************************************************)
(* The menu: up, down and the confirming frame call, on the menus of the   *)
(* game and on every list of up to MaxItems items, selectable or not.      *)
(***************************************************************************)
\* The identifier of the i-th item of an input menu.
ItemId(i) ==
  CASE i = 1 -> "Title" [] i = 2 -> "Continue" [] i = 3 -> "Restart"
    [] i = 4 -> "Exit" [] OTHER -> "Other"

MenuInputs ==
  {PauseMenu, OverMenu}
    \cup UNION {{MenuNew([i \in 1..n |-> [id |-> ItemId(i), selectable |-> flags[i]]]) :
                   flags \in [1..n -> BOOLEAN]} : n \in 0..MaxItems}

InitMenu ==
  /\ moment = NewTetris(0).moment
  /\ field = NewTetris(0).field
  /\ state = NewTetris(0).state
  /\ pause \in {Some(menu) : menu \in MenuInputs}
  /\ score = NewTetris(0).score
  /\ bag = NewTetris(0).bag
  /\ ret = [tag |-> "None"]
  /\ drawn = << >>
  /\ ticks = 0
  /\ twin = NoTwin

\* MenuMode::down
StepDown ==
  /\ ticks < MaxMenuSteps /\ pause # None
  /\ pause' = Some(MenuDown(pause[1]))
  /\ ret' = [tag |-> "down", from |-> pause[1]]
  /\ ticks' = ticks + 1
  /\ UNCHANGED <<moment, field, state, score, bag, drawn, twin>>

\* MenuMode::up
StepUp ==
  /\ ticks < MaxMenuSteps /\ pause # None
  /\ pause' = Some(MenuUp(pause[1]))
  /\ ret' = [tag |-> "up", from |-> pause[1]]
  /\ ticks' = ticks + 1
  /\ UNCHANGED <<moment, field, state, score, bag, drawn, twin>>

\* frame(now, Some(Drop)) under a menu of the game.
StepConfirm ==
  /\ ticks < MaxMenuSteps /\ pause # None
  /\ pause[1].items \in {PauseMenu.items, OverMenu.items}
  /\ Becomes(FrameMenu(Self, Some("Drop")))
  /\ UNCHANGED twin

NextMenu == StepDown \/ StepUp \/ StepConfirm

SpecMenu == InitMenu /\ [][NextMenu]_vars

\* The selection of a menu is a selectable item, or none if there is none.
SelectionOk(menu) ==
  IF Selectable(menu.items) = {} THEN menu.selected = None
  ELSE menu.selected # None /\ menu.selected[1] \in Selectable(menu.items)

\* The number of places from s forward to i, and from s backward to i, round
\* a list of n items; a full round when i = s.
Forward(s, i, n) == ((i - s - 1) % n) + 1
Backward(s, i, n) == ((s - i - 1) % n) + 1

\* The selectable item that comes first after the selected one, and first
\* before it, going round the list.
NextRound(menu) ==
  CHOOSE i \in Selectable(menu.items) : \A j \in Selectable(menu.items) :
    Forward(menu.selected[1], i, Len(menu.items))
      <= Forward(menu.selected[1], j, Len(menu.items))
PrevRound(menu) ==
  CHOOSE i \in Selectable(menu.items) : \A j \in Selectable(menu.items) :
    Backward(menu.selected[1], i, Len(menu.items))
      <= Backward(menu.selected[1], j, Len(menu.items))

\* C19: after construction and after any up and down calls the selection of
\* a menu is a selectable item, or none when no item is selectable; down
\* moves it to the next selectable item in list order and wraps to the
\* first, up to the previous and wraps to the last; so select() on the
\* pause and the game-over menu never yields none or the Title, and the
\* unreachable!() of the confirm branch of frame is never hit.
C19_MenuSelection ==
  /\ pause # None => SelectionOk(pause[1])
  /\ (ret.tag = "down" /\ ret.from.selected # None)
       => pause[1] = [ret.from EXCEPT !.selected = Some(NextRound(ret.from))]
  /\ (ret.tag = "up" /\ ret.from.selected # None)
       => pause[1] = [ret.from EXCEPT !.selected = Some(PrevRound(ret.from))]
  /\ (ret.tag \in {"up", "down"} /\ ret.from.selected = None)
       => pause[1] = ret.from
  /\ (pause # None /\ pause[1].items \in {PauseMenu.items, OverMenu.items})
       => MenuSelect(pause[1]) \in {Some("Continue"), Some("Restart"), Some("Exit")}
  /\ ret.tag # "unreachable"

\* down has wrapped the selection of the pause menu from Exit to Continue.
C19_Witness ==
  /\ ret.tag = "down" /\ ret.from = [PauseMenu EXCEPT !.selected = Some(3)]
  /\ pause = Some(PauseMenu)

\* The identifier of the item the overlay has selected.
Chosen == pause[1].items[pause[1].selected[1] + 1].id

\* The outcome o of a frame call under an overlay leaves the machine as it
\* is and returns r.
Signals(o, r) == o.ret = r /\ o.m = Self

\* The outcome o of a frame call with the given action under an overlay is
\* the effect of the selected item when the action is Drop, and Idle with
\* nothing changed when it is none, Left or Right.
Confirms(o, action) ==
  CASE action = Some("Drop") /\ Chosen = "Continue" ->
         /\ o.m = [Self EXCEPT !.pause = None]
         /\ o.ret = Draw(ToDrawable(Self))
    [] action = Some("Drop") /\ Chosen = "Restart" -> Signals(o, Restart)
    [] action = Some("Drop") /\ Chosen = "Exit" -> Signals(o, Exit)
    [] action \in {None, Some("Left"), Some("Right")} -> Signals(o, Idle)
    [] OTHER -> action \in {Some("Escape"), Some("Up"), Some("Down")}

\* C20: under an overlay, a frame call with action Drop on Continue removes
\* the overlay and returns the view of the game, which is unchanged; on
\* Restart and on Exit it returns the Restart and the Exit signal and leaves
\* overlay, selection, state, grid and score as they are; a frame call with
\* an action other than Escape, Up, Down and Drop, or with none, returns
\* Idle and changes nothing.
C20_ConfirmExecutesItem ==
  (pause # None /\ ticks < MaxTicks)
    => \A now \in Times, action \in ActionOpts :
         Confirms(Frame(Self, now, action, "I", "I"), action)

\* A frame call has confirmed Restart in the pause menu over a falling piece.
C20_Witness ==
  /\ ret = Restart /\ state.tag = "Fall"
  /\ pause = Some([PauseMenu EXCEPT !.selected = Some(2)])

\* m is a matrix of r rows of c cells with values in 0..7.
IsMatrix(m, r, c) ==
  /\ Len(m) = r
  /\ \A y \in 1..r : Len(m[y]) = c /\ \A x \in 1..c : m[y][x] \in 0..7

\* The 4x4 matrix p shows the shape of kind k: somewhere in it lies the shape
\* matrix of k, cut at the edge, and every cell outside it is 0.
ShowsKind(p, k) ==
  \E dy, dx \in 0..1 :
    \A y, x \in 1..4 :
      p[y][x] = (IF /\ y - dy \in 1..Len(Shape(k))
                    /\ x - dx \in 1..Len(Shape(k))
                 THEN Shape(k)[y - dy][x - dx] ELSE 0)

\* The view g is the one the claim has for the machine as it is.
ViewOk(g) ==
  /\ IsMatrix(g.main, Rows, Cols)
  /\ g.score = score
  /\ IsMatrix(g.preview, 4, 4)
  /\ IF state.tag \in {"Fall", "Drop"} THEN ShowsKind(g.preview, state.next)
     ELSE \A y, x \in 1..4 : g.preview[y][x] = 0

\* C21: every game view a frame call returns carries a main matrix of
\* rows x cols cells with values 0..7, the current score, and a preview
\* matrix of 4 rows of 4 cells: the shape of the next kind while the state is
\* Fall or Drop, and all zero while it is Start or GameOver.
C21_ViewShape == ret.tag = "Draw" => ViewOk(ret.game)

(***************************************************************************)
(* Block::spawn called once with the settings of a field of any height and *)
(* width from 4 on: the field is the one TetrisField::new builds for them. *)
(***************************************************************************)
\* TetrisField::new for settings with the given rows and cols.
NewFieldOf(rows, cols) == [y \in 1..rows |-> [x \in 1..cols |-> 0]]

\* Block::spawn for settings with the given cols; the cast `cols as i16` is
\* the identity for the widths of the model.
SpawnIn(k, cols) ==
  [tetromino |-> k, rotation |-> "Default",
   x |-> (cols \div 2) - ((Len(Shape(k)) + 1) \div 2), y |-> -1,
   saved_rotation |-> None, saved_x |-> None, saved_y |-> None]

InitSpawn ==
  /\ moment = 0
  /\ field \in {NewFieldOf(rows, cols) : rows \in 4..MaxHeight, cols \in 4..MaxWidth}
  /\ state = Start
  /\ pause = None
  /\ score = 0
  /\ bag = EmptyBag
  /\ ret = [tag |-> "None"]
  /\ drawn = << >>
  /\ ticks = 0
  /\ twin = NoTwin

\* Block::spawn(k, settings)
FieldSpawn ==
  /\ ret.tag = "None"
  /\ \E k \in Kinds :
       /\ state' = Fall(SpawnIn(k, Len(field[1])), NextInput(k))
       /\ ret' = [tag |-> "spawn"]
  /\ UNCHANGED <<moment, field, pause, score, bag, drawn, ticks, twin>>

SpecSpawn == InitSpawn /\ [][FieldSpawn]_vars

\* The columns left free on the left and on the right of the shape matrix of
\* the block b in a field of the given width.
LeftMargin(b) == b.x
RightMargin(b, cols) == cols - b.x - Len(Shape(b.tetromino))

\* The block b is as the claim has a spawned block in the grid f.
SpawnedOk(f, b) ==
  /\ b.rotation = "Default" /\ b.y = -1
  /\ LeftMargin(b) - RightMargin(b, Len(f[1])) \in -1..1
  /\ \A j, i \in 0..(Len(Shape(b.tetromino)) - 1) :
       BlockShape(b)[j + 1][i + 1] > 0
         => (b.x + i \in 0..(Len(f[1]) - 1) /\ b.y + j < Len(f))

\* C22: for every kind and every field width from 4 on, spawn yields the
\* rotation Default, y = -1 and an x for which the margins left and right of
\* the shape matrix differ by at most 1, and no occupied cell of the spawned
\* block lies outside the columns of the field or below its rows.
C22_SpawnCentred == ret.tag = "spawn" => SpawnedOk(field, state.block)

(***************************************************************************)
(* consume called once on a piece placed anywhere it fits, resting or not. *)
(***************************************************************************)
\* TetrisField::consume(block) returning c.
Locking(c) ==
  /\ field' = c.field
  /\ ret' = [tag |-> "lock", lines |-> c.lines]

FieldPlace ==
  /\ ret.tag = "None"
  /\ Locking(Consume(field, state.block))
  /\ UNCHANGED <<moment, state, pause, score, bag, drawn, ticks, twin>>

SpecPlace == InitRotate /\ [][FieldPlace]_vars

\* C23 as stated: for every grid and every placement that neither collides
\* nor overflows, after the piece is locked into the grid has_collision is
\* false for that placement.
C23_NoCollisionAfterLock ==
  ret.tag = "lock" => ~HasCollision(field, state.block)

\* C23 amended: after such a lock that clears no row, has_collision is true
\* for that placement exactly when a cell of the piece lies inside the grid;
\* it is false only for a piece wholly above the grid or after a row was
\* cleared.
C23_CollisionAfterLock ==
  ret.tag = "lock" =>
    /\ ret.lines = 0 =>
         (HasCollision(field, state.block) <=> BlockCells(field, state.block) # {})
    /\ ~HasCollision(field, state.block) =>
         (BlockCells(field, state.block) = {} \/ ret.lines > 0)

\* A piece has been locked inside the grid with no row cleared, and collides
\* with its own cells.
C23_Witness ==
  /\ ret.tag = "lock" /\ ret.lines = 0
  /\ BlockCells(field, state.block) # {}
  /\ HasCollision(field, state.block)

\* C24: whenever the pause menu, the menu that offers Continue, is the
\* active overlay, the state under it is Start, Fall or Drop; when the state
\* is GameOver the only overlay ever active is the game-over menu, which
\* offers Restart and Exit.
C24_PauseWrapsLiveStates ==
  pause # None =>
    /\ "Continue" \in Choices(pause[1]) => state.tag \in {"Start", "Fall", "Drop"}
    /\ state.tag = "GameOver" => Choices(pause[1]) = {"Restart", "Exit"}

\* The grid columns altitude reads for the block b: those of the columns of
\* its shape that hold a cell.
AltitudeColumns(b) ==
  {b.x + i : i \in {c \in 0..(Len(BlockShape(b)) - 1) :
                     \E j \in 1..Len(BlockShape(b)) : BlockShape(b)[j][c + 1] > 0}}

\* C25: after every tick, whenever the state is Fall or Drop, the active
\* piece neither overflows nor collides with an occupied cell of the grid,
\* also after a hard drop, which changes y without testing the placement; so
\* altitude never reads a grid column outside [0, cols).  (A consume call
\* made on its own is no tick: it leaves the locked piece in the state.)
C25_ActivePieceFits ==
  (state.tag \in {"Fall", "Drop"} /\ ret.tag # "consume") =>
    /\ ~HasOverflow(field, state.block)
    /\ ~HasCollision(field, state.block)
    /\ AltitudeColumns(state.block) \subseteq 0..(Cols - 1)

\* A hard drop has moved the piece down and left it waiting to be locked.
C25_Witness ==
  /\ pause = None /\ state.tag = "Drop" /\ ticks = MaxTicks
  /\ ret.tag = "Draw" /\ moment = 0
  /\ Rejected(state.block)

\* The outcome o of a frame call with action Drop, TetrisField::drop having
\* returned r, has not moved the piece upward and has kept x and rotation.
NotRaised(o, r) ==
  /\ r.altitude >= 0
  /\ o.m.state.block.y >= state.block.y
  /\ o.m.state.block.x = state.block.x
  /\ o.m.state.block.rotation = state.block.rotation

\* C26: in every reachable state of the game, a frame call with action Drop
\* processed in Fall never moves the active piece upward: the value
\* TetrisField::drop returns is at least 0, y after the call is at least y
\* before it, and x and the rotation are unchanged.
C26_HardDropNeverRaises ==
  (pause = None /\ state.tag = "Fall")
    => \A now \in Times :
         NotRaised(Frame(Self, now, Some("Drop"), "I", "I"), Drop(field, state.block))

Lives(o) ==
  /\ moment' = o.m.moment % (2 * Delay)
  /\ field' = o.m.field
  /\ state' = o.m.state
  /\ pause' = o.m.pause
  /\ score' = o.m.score
  /\ bag' = o.m.bag
  /\ ret' = o.ret
  /\ drawn' = o.drawn
  /\ UNCHANGED <<ticks, twin>>

\* The piece in play is the first of the game: two kinds have been drawn.
FirstPiece == BagLen(bag) = BatchSize - 2

\* The first piece has been locked: state_drop has drawn the third kind.
FirstLocked == BagLen(bag) = BatchSize - 3

\* frame(now, action) in GameState::Start
LiveStart ==
  /\ pause = None /\ state.tag = "Start"
  /\ \E k1, k2 \in Kinds :
       /\ CanDraw(bag, k1) /\ CanDraw(RandomBlock(bag, k1), k2)
       /\ \E o \in {FrameStart(Self, k1, k2)} : Lives(o)

\* frame(now, action) in GameState::Fall, no time having passed since the
\* gravity reference.
LiveSoon ==
  /\ pause = None /\ state.tag = "Fall" /\ FirstPiece
  /\ \E action \in NotEscape :
       \E o \in {FrameFall(Self, moment, action)} : Lives(o)

\* frame(now, action) in GameState::Fall, the delay having passed since the
\* gravity reference.
LiveDue ==
  /\ pause = None /\ state.tag = "Fall" /\ FirstPiece
  /\ \E action \in NotEscape :
       \E o \in {FrameFall(Self, moment + Delay, action)} : Lives(o)

\* frame(now, action) in GameState::Drop
LiveLock ==
  /\ pause = None /\ state.tag = "Drop" /\ FirstPiece
  /\ \E k \in Kinds :
       CanDraw(bag, k) /\ \E o \in {FrameDrop(Self, k)} : Lives(o)

NextLive == LiveStart \/ LiveSoon \/ LiveDue \/ LiveLock

\* A frame call arrives for the falling piece with a timestamp that has
\* advanced by the delay: every LiveDue step is one.
Advances ==
  /\ pause = None /\ state.tag = "Fall" /\ FirstPiece
  /\ moment' = (moment + Delay) % (2 * Delay)

\* A frame call arrives for the piece that waits to be locked: every
\* LiveLock step is one.
Arrives ==
  /\ pause = None /\ state.tag = "Drop" /\ FirstPiece
  /\ \E k \in Kinds : CanDraw(bag, k) /\ drawn' = <<k>>

\* The driver keeps calling frame, and timestamps that have advanced by the
\* delay keep arriving.
SpecLive ==
  /\ Init /\ [][NextLive]_vars
  /\ WF_moment(Advances) /\ WF_drawn(Arrives)

\* C28: with no overlay, frame calls that keep arriving and timestamps that
\* keep advancing by the delay, a piece in state Fall eventually reaches
\* Drop and is locked by the following call, whatever actions other than
\* Escape are supplied in between.
C28_EveryPieceLocks == (state.tag = "Fall" /\ FirstPiece) ~> FirstLocked

\* The row y (from 0) of the grid f is completely filled.
IsFullRow(f, y) == \A x \in 1..Len(f[y + 1]) : f[y + 1][x] # 0

\* C29: after every tick the grid has exactly rows x cols cells with values
\* in 0..7 and no completely filled row: every row a lock fills is removed
\* within the same Drop tick.
C29_NoFullRowBetweenTicks ==
  /\ IsMatrix(field, Rows, Cols)
  /\ \A y \in 0..(Rows - 1) : ~IsFullRow(field, y)

\* A frame call processed in Drop has cleared a row and left cells of the
\* stack in the grid.
C29_Witness ==
  /\ Len(drawn) = 1 /\ ret.tag = "Draw" /\ ticks = MaxTicks
  /\ score > ScoreInput /\ field # NewField

\* The rotation states the claim allows a piece of kind k.
AllowedRotations(k) ==
  CASE k = "O" -> {"Default"}
    [] k \in {"I", "S", "Z"} -> {"Default", "CCW"}
    [] k \in {"T", "J", "L"} -> {"Default", "CW", "Reverse", "CCW"}

\* C30: in every reachable state the rotation state of the active piece is
\* Default for O, Default or CCW for I, S and Z, and any of the four for T, J
\* and L; so the unreachable!() arms of Rotation::next and of
\* Tetromino::wallkick are not reached by any sequence of frame calls.
C30_RotationStatePerKind ==
  state.tag \in {"Fall", "Drop"} =>
    /\ state.block.rotation \in AllowedRotations(state.block.tetromino)
    /\ RotationNext(state.block.rotation, Dir(state.block.tetromino)) # "unreachable"
    /\ Wallkick(state.block.tetromino, state.block.rotation) # << >>

\* Three accepted rotations have brought a T to CCW.
C30_Witness ==
  /\ state.tag = "Fall" /\ pause = None
  /\ state.block.tetromino = "T" /\ state.block.rotation = "CCW"

(***************************************************************************)
(* The game with mem::take made visible: a frame call whose handler takes  *)
(* the state is two steps, the take, which leaves GameState::default(),    *)
(* that is Temp, in self.state, and the rest of the call, which matches    *)
(* the value taken and assigns.  Between the two, ret holds the value      *)
(* taken and what the call has computed so far.                            *)
(***************************************************************************)
\* GameState::default()
Temp == [tag |-> "Temp"]

\* mem::take(&mut self.state): the machine as it is left.
Taken(m) == [m EXCEPT !.state = Temp]

\* The `if let` of state_fall matching GameState::Drop.
FallPutMissing(m, held) ==
  IF held.tag = "Drop" THEN [m EXCEPT !.state = Dropping(held.block, held.next)]
  ELSE m

\* `if let GameState::Fall(block, next) = <taken> { self.state = Drop(block,
\* next) }` of state_fall: nothing is assigned when the value does not match.
FallPut(m, held) ==
  IF held.tag = "Fall" THEN [m EXCEPT !.state = Dropping(held.block, held.next)]
  ELSE m

\* The last match of frame on the machine n: to_drawable reaches
\* unreachable!() on GameState::Temp.
RenderedTaken(n) ==
  IF n.pause = None /\ n.state.tag = "Temp" THEN [tag |-> "unreachable"]
  ELSE Rendered(n)

\* A frame call is under way: its handler has taken the state.
MidCall == ret.tag = "take"

\* state_fall up to its mem::take: g is what the match and the gravity step
\* left, with `drop` set; the block was moved in place.
TakingFall(g) ==
  /\ g.drop
  /\ moment' = g.moment
  /\ state' = Taken(Self).state
  /\ ret' = [tag |-> "take", call |-> "state_fall",
             held |-> Fall(g.block, state.next), changed |-> g.changed]

TakeFall ==
  /\ ~MidCall /\ ticks < MaxTicks
  /\ pause = None /\ state.tag = "Fall"
  /\ \E now \in Times, action \in NotEscape :
       \E g \in {FallGravity(Self, now, FallAction(Self, now, action))} :
         TakingFall(g)
  /\ UNCHANGED <<field, pause, score, bag, drawn, ticks, twin>>

\* The rest of that call: the `if let`, the return of `changed`, and the
\* end of frame.
PuttingFall(n) ==
  Becomes(Outcome(n, IF ret.changed THEN RenderedTaken(n) ELSE Idle, << >>))

PutFall ==
  /\ MidCall /\ ret.call = "state_fall"
  /\ PuttingFall(FallPut(Self, ret.held))
  /\ UNCHANGED twin

\* frame(now, action) in GameState::Fall when `drop` is not set: the state
\* is not taken.
CallFall ==
  /\ ~MidCall /\ ticks < MaxTicks
  /\ pause = None /\ state.tag = "Fall"
  /\ \E now \in Times, action \in NotEscape :
       /\ ~FallGravity(Self, now, FallAction(Self, now, action)).drop
       /\ Becomes(FrameFall(Self, now, action))
  /\ UNCHANGED twin

\* state_drop up to its mem::take.
TakeDrop ==
  /\ ~MidCall /\ ticks < MaxTicks
  /\ pause = None /\ state.tag = "Drop"
  /\ state' = Taken(Self).state
  /\ ret' = [tag |-> "take", call |-> "state_drop", held |-> state,
             changed |-> TRUE]
  /\ UNCHANGED <<moment, field, pause, score, bag, drawn, ticks, twin>>

\* `if let GameState::Drop(prev, current) = <taken> { ... }` of state_drop
\* and the end of frame: nothing is assigned when the value does not match.
PuttingDrop(held) ==
  IF held.tag = "Drop"
  THEN \E k \in Kinds :
         CanDraw(bag, k) /\ Becomes(FrameDrop([Self EXCEPT !.state = held], k))
  ELSE Becomes(Outcome(Self, RenderedTaken(Self), << >>))

PutDrop ==
  /\ MidCall /\ ret.call = "state_drop"
  /\ PuttingDrop(ret.held)
  /\ UNCHANGED twin

\* The frame calls that take no state.
CallPause == ~MidCall /\ TickPause
CallStart == ~MidCall /\ TickStart
CallGameOver == ~MidCall /\ TickGameOver
CallMenu == ~MidCall /\ TickMenu

NextTake ==
  \/ CallPause \/ CallStart \/ CallGameOver \/ CallMenu
  \/ CallFall \/ TakeFall \/ PutFall \/ TakeDrop \/ PutDrop

SpecTake == Init /\ [][NextTake]_vars

\* C31: at the start and at the end of every frame call the state is one of
\* Start, Fall, Drop and GameOver, never Temp, so the unreachable!() arms on
\* GameState::Temp of frame and to_drawable are not reached; and every
\* mem::take of the state is followed in the same call by the assignment of
\* a state other than Temp: the value taken matches the `if let` it is
\* handed to.
C31_TempNeverObservable ==
  /\ ~MidCall => state.tag \in {"Start", "Fall", "Drop", "GameOver"}
  /\ ret.tag # "unreachable"
  /\ MidCall =>
       /\ state = Temp
       /\ ret.call = "state_fall" => FallPut(Self, ret.held).state.tag = "Drop"
       /\ ret.call = "state_drop" => ret.held.tag = "Drop"

\* state_fall has taken the state of a piece whose downward move was
\* rejected, and not yet assigned.
C31_Witness ==
  /\ MidCall /\ ret.call = "state_fall" /\ state = Temp
  /\ ret.held.tag = "Fall" /\ ~ret.changed

=============================================================================
